---- MODULE Spec2Model ----
(***************************************************************************)
(* A model of the retrieval-augmented chat backend of src/app/main.py:     *)
(* the chunker, the embedding client, ingestion into the vector store,     *)
(* retrieval, prompt composition, the chat turn and the generation         *)
(* streamer.                                                               *)
(*                                                                         *)
(* Four specifications share the module:                                   *)
(*   Spec        ingestion, retrieval and the chat turn over one store     *)
(*   SpecChunk   chunk_text applied to bounded inputs                      *)
(*   SpecPrompt  build_prompt applied to bounded inputs                    *)
(*   SpecStream  stream_ollama_response against every bounded feed         *)
(***************************************************************************)
EXTENDS Integers, Sequences, FiniteSets, TLC

VARIABLES
    \* SpecChunk: one call of chunk_text
    c_text, c_size, c_overlap, c_chunks, c_pc,
    \* SpecPrompt: one call of build_prompt
    p_query, p_ctx, p_action, p_rag, p_out, p_pc,
    \* SpecStream: one run of stream_ollama_response
    s_input,    \* the lines the generation endpoint would send, in order
    s_pos,      \* how many of them aiter_lines has handed over
    s_events,   \* the events yielded so far
    s_pc,       \* "start", "lines", "closed"
    s_fault,    \* the failure met: "none" or the exception's class
    s_raised,   \* the exception that left the generator, or "none"
    \* Spec: the vector store and the coroutines working on it
    store,      \* the collection: a set of records keyed by id
    ing,        \* ingest_document, one coroutine per uploaded document
    ret,        \* retrieve_relevant_chunks, the call in progress
    chat        \* the chat handler, the turn in progress

chunkVars == <<c_text, c_size, c_overlap, c_chunks, c_pc>>
promptVars == <<p_query, p_ctx, p_action, p_rag, p_out, p_pc>>
streamVars == <<s_input, s_pos, s_events, s_pc, s_fault, s_raised>>
mainVars == <<store, ing, ret, chat>>
vars == <<chunkVars, promptVars, streamVars, mainVars>>

(***************************************************************************)
(* Bounds of the model.                                                    *)
(***************************************************************************)
MaxLen == 6
MaxSize == 4
MaxCtx == 2
MaxFeed == 3
MaxDocLen == 4

\* CHUNK_SIZE = 1000 and CHUNK_OVERLAP = 200 (src/app/main.py 49-50), scaled
\* down so that a document of MaxDocLen characters spans several chunks.
CHUNK_SIZE == 2
CHUNK_OVERLAP == 1

\* Program constants.
EMBED_DIM == 768
TOP_K == 5

Min(a, b) == IF a < b THEN a ELSE b
Max(a, b) == IF a > b THEN a ELSE b

\* ceil(a / b) for a >= 0, b > 0
CeilDiv(a, b) == (a + b - 1) \div b

RECURSIVE Concat(_)
Concat(ss) == IF ss = <<>> THEN <<>> ELSE Head(ss) \o Concat(Tail(ss))

\* Python's seq[lo:hi] for 0 <= lo, 0 <= hi (indices clipped to the length).
Slice(s, lo, hi) == SubSeq(s, lo + 1, Min(hi, Len(s)))

Alphabet == {"a", "b"}
Texts == UNION {[1..n -> Alphabet] : n \in 0..MaxLen}

(***************************************************************************)
(* chunk_text (src/app/main.py 53-64): the while loop, one recursion per   *)
(* iteration.                                                              *)
(***************************************************************************)
RECURSIVE chunk_loop_no_break(_, _, _, _, _)
chunk_loop_no_break(text, chunk_size, overlap, start, chunks) ==
    IF start < Len(text)
    THEN LET end == start + chunk_size
             chunk == Slice(text, start, end)
         IN chunk_loop_no_break(text, chunk_size, overlap, end - overlap,
                                Append(chunks, chunk))
    ELSE chunks

RECURSIVE chunk_loop_no_overlap(_, _, _, _, _)
chunk_loop_no_overlap(text, chunk_size, overlap, start, chunks) ==
    IF start < Len(text)
    THEN LET end == start + chunk_size
             chunk == Slice(text, start, end)
         IN IF end >= Len(text)
            THEN Append(chunks, chunk)
            ELSE chunk_loop_no_overlap(text, chunk_size, overlap, end,
                                       Append(chunks, chunk))
    ELSE chunks

RECURSIVE chunk_loop(_, _, _, _, _)
chunk_loop(text, chunk_size, overlap, start, chunks) ==
    IF start < Len(text)
    THEN LET end == start + chunk_size
             chunk == Slice(text, start, end)
         IN IF end >= Len(text)
            THEN Append(chunks, chunk)
            ELSE chunk_loop(text, chunk_size, overlap, end - overlap,
                            Append(chunks, chunk))
    ELSE chunks

chunk_text_no_break(text, chunk_size, overlap) ==
    chunk_loop_no_break(text, chunk_size, overlap, 0, <<>>)

chunk_text_no_overlap(text, chunk_size, overlap) ==
    chunk_loop_no_overlap(text, chunk_size, overlap, 0, <<>>)

chunk_text(text, chunk_size, overlap) ==
    chunk_loop(text, chunk_size, overlap, 0, <<>>)

(***************************************************************************)
(* SpecChunk: chunk_text on every text of at most MaxLen characters and    *)
(* every 0 <= overlap < size <= MaxSize.                                   *)
(***************************************************************************)
ChunkIdle ==
    /\ c_text = <<>>
    /\ c_size = 1
    /\ c_overlap = 0
    /\ c_chunks = <<>>
    /\ c_pc = "idle"

PromptIdle ==
    /\ p_query = <<>>
    /\ p_ctx = <<>>
    /\ p_action = "None"
    /\ p_rag = FALSE
    /\ p_out = <<>>
    /\ p_pc = "idle"

StreamIdle ==
    /\ s_input = <<>>
    /\ s_pos = 0
    /\ s_events = <<>>
    /\ s_pc = "idle"
    /\ s_fault = "none"
    /\ s_raised = "none"

\* The store and its coroutines, unused outside Spec.
MainIdle ==
    /\ store = {}
    /\ ing = <<>>
    /\ ret = <<>>
    /\ chat = <<>>

InitChunk ==
    /\ PromptIdle
    /\ StreamIdle
    /\ MainIdle
    /\ c_text \in Texts
    /\ c_size \in 1..MaxSize
    /\ c_overlap \in 0..(c_size - 1)
    /\ c_chunks = <<>>
    /\ c_pc = "call"

ChunkCall ==
    /\ c_pc = "call"
    /\ c_chunks' = chunk_text(c_text, c_size, c_overlap)
    /\ c_pc' = "returned"
    /\ UNCHANGED <<c_text, c_size, c_overlap>>
    /\ UNCHANGED <<promptVars, streamVars, mainVars>>

NextChunk == ChunkCall

SpecChunk == InitChunk /\ [][NextChunk]_vars

\* C8 (as stated): for L > 0 the number of chunks is
\* ceil(max(L - O, 0) / (S - O)), and 0 chunks for L = 0.
C8_CountAsStated ==
    c_pc = "returned" =>
        Len(c_chunks) =
            IF Len(c_text) > 0
            THEN CeilDiv(Max(Len(c_text) - c_overlap, 0), c_size - c_overlap)
            ELSE 0

\* C8 (amended): for L > 0 the number of chunks is
\* max(1, ceil(max(L - O, 0) / (S - O))): a non-empty text no longer than the
\* overlap still gives one chunk; L = 0 gives 0 chunks.
C8_CountAmended ==
    c_pc = "returned" =>
        Len(c_chunks) =
            IF Len(c_text) > 0
            THEN Max(1, CeilDiv(Max(Len(c_text) - c_overlap, 0),
                                c_size - c_overlap))
            ELSE 0

\* A text of several chunks has been chunked with a non-zero overlap.
C8_Witness ==
    /\ c_pc = "returned"
    /\ c_overlap > 0
    /\ Len(c_text) > c_size
    /\ Len(c_chunks) >= 3

\* The chunks with the overlap removed: the first S-O characters of every
\* chunk but the last, then the whole last chunk.
Reconstruct(chunks, size, overlap) ==
    Concat([i \in 1..Len(chunks) |->
                IF i < Len(chunks)
                THEN Slice(chunks[i], 0, size - overlap)
                ELSE chunks[i]])

\* C9: the chunks with the overlap removed give back the text exactly.
C9_Reconstruction ==
    c_pc = "returned" => Reconstruct(c_chunks, c_size, c_overlap) = c_text

\* A text with two different letters was split into overlapping chunks.
C9_Witness ==
    /\ c_pc = "returned"
    /\ c_overlap > 0
    /\ Len(c_chunks) >= 2
    /\ \E i, j \in 1..Len(c_text) : c_text[i] # c_text[j]

(***************************************************************************)
(* build_prompt (src/app/main.py 247-307).  A string is a sequence of      *)
(* tokens: each literal fragment of a template is one token, the query     *)
(* and the context chunks are token sequences of their own.                *)
(***************************************************************************)
SEP == <<"\n\n">>

\* "\n\n".join(context_chunks)
RECURSIVE JoinChunks(_)
JoinChunks(context_chunks) ==
    IF context_chunks = <<>> THEN <<>>
    ELSE IF Len(context_chunks) = 1 THEN Head(context_chunks)
    ELSE Head(context_chunks) \o SEP \o JoinChunks(Tail(context_chunks))

RAG_SYSTEM == <<"You are a helpful AI assistant ... Use the following context from their uploaded documents ...">>
DIRECT_SYSTEM == <<"You are a helpful AI assistant ... Be thorough, accurate, and educational in your responses.">>

\* The RAG branch, lines 251-291.
rag_prompt(query, context_chunks, action_type) ==
    LET context == JoinChunks(context_chunks)
        user_prompt ==
            IF action_type = "summarize"
            THEN <<"Based on the following context ..., provide a comprehensive summary.\n\nContext:\n">>
                 \o context
                 \o <<"\n\nPlease provide a clear, well-structured summary ...">>
            ELSE IF action_type = "suggest_projects"
            THEN <<"Based on the following context ..., suggest practical project ideas ...\n\nContext:\n">>
                 \o context
                 \o <<"\n\nProvide creative, actionable project suggestions that relate to the material.">>
            ELSE IF action_type = "explain"
            THEN <<"Based on the following context ..., explain the concepts ...\n\nContext:\n">>
                 \o context
                 \o <<"\n\nUser Query: ">> \o query
                 \o <<"\n\nProvide a detailed explanation ...">>
            ELSE <<"Context from uploaded documents:\n">>
                 \o context
                 \o <<"\n\nUser Question: ">> \o query
                 \o <<"\n\nPlease answer the user's question based on the provided context. ...">>
    IN RAG_SYSTEM \o SEP \o user_prompt

\* The direct branch, lines 292-307.
direct_prompt(query, action_type) ==
    LET user_prompt ==
            IF action_type = "summarize"
            THEN <<"The user is asking for a summary. Please provide a helpful response to: ">>
                 \o query
            ELSE IF action_type = "suggest_projects"
            THEN <<"Suggest practical project ideas related to: ">> \o query
                 \o <<". Provide creative, actionable project suggestions.">>
            ELSE IF action_type = "explain"
            THEN <<"Explain the following concept in a clear and educational way: ">>
                 \o query
                 \o <<". Provide a detailed explanation that helps the student understand.">>
            ELSE <<"User Question: ">> \o query
                 \o <<"\n\nPlease answer the user's question. Be thorough, accurate, and helpful.">>
    IN DIRECT_SYSTEM \o SEP \o user_prompt

\* build_prompt with the emptiness guard of line 250 left out.
build_prompt_flag_only(query, context_chunks, action_type, use_rag) ==
    IF use_rag
    THEN rag_prompt(query, context_chunks, action_type)
    ELSE direct_prompt(query, action_type)

\* Line 250: `if use_rag and context_chunks:` (an empty list is falsy).
build_prompt(query, context_chunks, action_type, use_rag) ==
    IF use_rag /\ context_chunks # <<>>
    THEN rag_prompt(query, context_chunks, action_type)
    ELSE direct_prompt(query, action_type)

(***************************************************************************)
(* SpecPrompt: build_prompt on bounded inputs.  "None" is Python's None,   *)
(* "other" an action string the templates do not know.                     *)
(***************************************************************************)
Queries == {<<>>, <<"q1">>, <<"q1", "q2">>}
CtxChunks == {<<>>, <<"k1">>, <<"k2", "k3">>}
CtxLists == UNION {[1..n -> CtxChunks] : n \in 0..MaxCtx}
Actions == {"None", "summarize", "suggest_projects", "explain", "other"}

InitPrompt ==
    /\ ChunkIdle
    /\ StreamIdle
    /\ MainIdle
    /\ p_query \in Queries
    /\ p_ctx \in CtxLists
    /\ p_action \in Actions
    /\ p_rag \in BOOLEAN
    /\ p_out = <<>>
    /\ p_pc = "call"

PromptCall ==
    /\ p_pc = "call"
    /\ p_out' = build_prompt(p_query, p_ctx, p_action, p_rag)
    /\ p_pc' = "returned"
    /\ UNCHANGED <<p_query, p_ctx, p_action, p_rag>>
    /\ UNCHANGED <<chunkVars, streamVars, mainVars>>

NextPrompt == PromptCall

SpecPrompt == InitPrompt /\ [][NextPrompt]_vars

\* s occurs in t as a contiguous run of tokens.
IsInfix(s, t) ==
    \E i \in 0..(Len(t) - Len(s)) : SubSeq(t, i + 1, i + Len(s)) = s

\* The prompt opens with the RAG system instruction and carries the joined
\* context straight after a template's "Context...:\n" fragment.
IsRagPrompt(out, context_chunks) ==
    /\ Len(out) >= Len(RAG_SYSTEM)
    /\ SubSeq(out, 1, Len(RAG_SYSTEM)) = RAG_SYSTEM
    /\ IsInfix(JoinChunks(context_chunks), out)

\* The prompt opens with the direct system instruction and holds no token
\* of any context chunk.
IsDirectPrompt(out) ==
    /\ Len(out) >= Len(DIRECT_SYSTEM)
    /\ SubSeq(out, 1, Len(DIRECT_SYSTEM)) = DIRECT_SYSTEM
    /\ \A i \in 1..Len(out) : out[i] \notin {"k1", "k2", "k3"}

\* C10: the RAG template is used iff rag_enabled is true and context_chunks
\* is non-empty, otherwise the direct template, whatever the action; with an
\* empty context the result is the one rag_enabled = FALSE gives.
C10_ModeSelection ==
    p_pc = "returned" =>
        /\ IsRagPrompt(p_out, p_ctx) <=> (p_rag /\ p_ctx # <<>>)
        /\ IsDirectPrompt(p_out) <=> ~(p_rag /\ p_ctx # <<>>)
        /\ p_ctx = <<>> =>
             p_out = build_prompt(p_query, <<>>, p_action, FALSE)

\* compose was called with rag_enabled true, no context and an unknown action.
C10_Witness ==
    /\ p_pc = "returned"
    /\ p_rag
    /\ p_ctx = <<>>
    /\ p_action = "other"
    /\ IsDirectPrompt(p_out)

(***************************************************************************)
(* stream_ollama_response (src/app/main.py 310-343).                       *)
(*                                                                         *)
(* A line of the feed is one of                                            *)
(*   empty      ""            (skipped by `if line:`)                      *)
(*   malformed  not JSON      (json.loads raises JSONDecodeError)          *)
(*   nonobject  JSON that is no object, such as 5, null or [1]             *)
(*   object     a JSON object, with or without "response" and "done"       *)
(***************************************************************************)
Line(kind, response, done) ==
    [kind |-> kind, response |-> response, done |-> done]

Lines ==
    {Line("empty", "absent", "absent"),
     Line("malformed", "absent", "absent"),
     Line("nonobject", "absent", "absent")}
    \cup {Line("object", r, d) : r \in {"absent", "a", "b"},
                                 d \in {"absent", "false", "true"}}

Feeds == UNION {[1..n -> Lines] : n \in 0..MaxFeed}

ChunkEvent(text) == [type |-> "chunk", data |-> text]
DoneEvent == [type |-> "done", data |-> "true"]
ErrorEvent(msg) == [type |-> "error", data |-> msg]

\* The except clauses of lines 335-343, for an exception of class exc raised
\* inside the try.  The HTTPStatusError clause formats e.response.text; the
\* response was opened with client.stream and its body never read, and httpx
\* raises ResponseNotRead for .text of such a response.  That exception is
\* raised inside an except clause, so no sibling clause catches it: it
\* leaves the generator and no event is yielded.
stream_handler(exc) ==
    IF exc = "ConnectError"
    THEN [events |-> <<ErrorEvent("Cannot connect to Ollama")>>,
          raised |-> "none"]
    ELSE IF exc = "HTTPStatusError"
    THEN [events |-> <<>>, raised |-> "ResponseNotRead"]
    ELSE [events |-> <<ErrorEvent("Error communicating with Ollama")>>,
          raised |-> "none"]

\* Lines 325-334 for one line: the events yielded, whether the loop breaks,
\* and the exception raised ("none" when none leaves the inner try).
stream_line_no_break(line) ==
    IF line.kind = "empty" \/ line.kind = "malformed"
    THEN [events |-> <<>>, break |-> FALSE, exc |-> "none"]
    ELSE IF line.kind = "nonobject"
    THEN [events |-> <<>>, break |-> FALSE, exc |-> "TypeError"]
    ELSE [events |->
              (IF line.response # "absent"
               THEN <<ChunkEvent(line.response)>> ELSE <<>>)
              \o (IF line.done = "true" THEN <<DoneEvent>> ELSE <<>>),
          break |-> FALSE,
          exc |-> "none"]

stream_line(line) ==
    IF line.kind = "empty"
    THEN [events |-> <<>>, break |-> FALSE, exc |-> "none"]
    ELSE IF line.kind = "malformed"
    \* json.JSONDecodeError: continue
    THEN [events |-> <<>>, break |-> FALSE, exc |-> "none"]
    ELSE IF line.kind = "nonobject"
    \* `"response" in data` or data.get fails on a value that is no dict
    \* (TypeError, AttributeError): not a JSONDecodeError, so it leaves the
    \* inner try.
    THEN [events |-> <<>>, break |-> FALSE, exc |-> "TypeError"]
    ELSE [events |->
              (IF line.response # "absent"
               THEN <<ChunkEvent(line.response)>> ELSE <<>>)
              \o (IF line.done = "true" THEN <<DoneEvent>> ELSE <<>>),
          break |-> line.done = "true",
          exc |-> "none"]

InitStream ==
    /\ ChunkIdle
    /\ PromptIdle
    /\ MainIdle
    /\ s_input \in Feeds
    /\ s_pos = 0
    /\ s_events = <<>>
    /\ s_pc = "start"
    /\ s_fault = "none"
    /\ s_raised = "none"

\* An exception of class exc raised inside the try: the handler runs and the
\* generator ends.
StreamRaise(exc) ==
    LET h == stream_handler(exc)
    IN /\ s_events' = s_events \o h.events
       /\ s_raised' = h.raised
       /\ s_fault' = exc
       /\ s_pc' = "closed"

\* Lines 314-323: the POST is sent and the status checked.
StreamOpen ==
    /\ s_pc = "start"
    /\ \E outcome \in {"ok", "ConnectError", "HTTPStatusError", "TimeoutException"} :
         IF outcome = "ok"
         THEN /\ s_pc' = "lines"
              /\ UNCHANGED <<s_events, s_fault, s_raised>>
         ELSE StreamRaise(outcome)
    /\ UNCHANGED <<s_input, s_pos>>
    /\ UNCHANGED <<chunkVars, promptVars, mainVars>>

\* One iteration of `async for line in response.aiter_lines()`.
StreamLine ==
    /\ s_pc = "lines"
    /\ s_pos < Len(s_input)
    /\ LET r == stream_line(s_input[s_pos + 1])
       IN /\ s_pos' = s_pos + 1
          /\ IF r.exc # "none"
             THEN StreamRaise(r.exc)
             ELSE /\ s_events' = s_events \o r.events
                  /\ s_pc' = IF r.break THEN "closed" ELSE "lines"
                  /\ UNCHANGED <<s_fault, s_raised>>
    /\ UNCHANGED s_input
    /\ UNCHANGED <<chunkVars, promptVars, mainVars>>

\* The endpoint closes the connection: aiter_lines is exhausted and the
\* loop, the try and the generator end.
StreamEnd ==
    /\ s_pc = "lines"
    /\ s_pos = Len(s_input)
    /\ s_pc' = "closed"
    /\ UNCHANGED <<s_input, s_pos, s_events, s_fault, s_raised>>
    /\ UNCHANGED <<chunkVars, promptVars, mainVars>>

\* The transport fails while the next line is awaited (a read error, a read
\* timeout).
StreamFail ==
    /\ s_pc = "lines"
    /\ StreamRaise("ReadError")
    /\ UNCHANGED <<s_input, s_pos>>
    /\ UNCHANGED <<chunkVars, promptVars, mainVars>>

NextStream == StreamOpen \/ StreamLine \/ StreamEnd \/ StreamFail

SpecStream == InitStream /\ [][NextStream]_vars

\* The index of the first line whose done is true, 0 when there is none.
FirstDone(feed) ==
    LET D == {i \in 1..Len(feed) :
                 feed[i].kind = "object" /\ feed[i].done = "true"}
    IN IF D = {} THEN 0 ELSE CHOOSE i \in D : \A j \in D : i <= j

\* One chunk event per JSON line carrying a response field, in feed order.
RECURSIVE ChunksOf(_)
ChunksOf(feed) ==
    IF feed = <<>> THEN <<>>
    ELSE (IF Head(feed).kind = "object" /\ Head(feed).response # "absent"
          THEN <<ChunkEvent(Head(feed).response)>> ELSE <<>>)
         \o ChunksOf(Tail(feed))

\* What the claim expects of a feed: the chunks up to and including the
\* first done line, then one done event.
ExpectedEvents(feed) ==
    IF FirstDone(feed) = 0 THEN ChunksOf(feed)
    ELSE ChunksOf(SubSeq(feed, 1, FirstDone(feed))) \o <<DoneEvent>>

LastRead(feed) == IF FirstDone(feed) = 0 THEN Len(feed) ELSE FirstDone(feed)

\* C6 (as stated): for any feed of lines read without a transport failure,
\* the events are the chunks of the lines up to and including the first done
\* line, then one done event, and no line after it is read.
C6_TerminationAsStated ==
    (s_pc = "closed" /\ s_fault \in {"none", "TypeError"}) =>
        /\ s_events = ExpectedEvents(s_input)
        /\ s_pos <= LastRead(s_input)

\* C6 (amended): as long as every line read is empty, malformed or a JSON
\* object and the transport does not fail, the events so far are the chunks
\* of the lines read, in order, followed by one done event once the first
\* done line is read; the stream then ends and no later line is read.
C6_Termination ==
    s_fault = "none" =>
        /\ s_events = ExpectedEvents(SubSeq(s_input, 1, s_pos))
        /\ s_pos <= LastRead(s_input)
        /\ (FirstDone(s_input) # 0 /\ s_pos = FirstDone(s_input)) =>
              /\ s_pc = "closed"
              /\ s_events[Len(s_events)] = DoneEvent
              /\ Cardinality({i \in 1..Len(s_events) :
                                 s_events[i] = DoneEvent}) = 1
        /\ s_pc = "closed" => s_pos = LastRead(s_input)

\* A stream ended on a done line after two or more events, with a line of
\* the feed left unread.
C6_Witness ==
    /\ s_pc = "closed"
    /\ s_fault = "none"
    /\ FirstDone(s_input) # 0
    /\ s_pos < Len(s_input)
    /\ Len(s_events) >= 3
    /\ s_events[Len(s_events)] = DoneEvent

ErrorEvents == {i \in 1..Len(s_events) : s_events[i].type = "error"}

\* C7: a stream that met a failure (connection, HTTP status, any other
\* exception, before or after chunk events) has emitted exactly one error
\* event, as its last event, and has raised nothing to its consumer.
C7_ErrorsAbsorbed ==
    (s_pc = "closed" /\ s_fault # "none") =>
        /\ Cardinality(ErrorEvents) = 1
        /\ s_events[Len(s_events)].type = "error"
        /\ s_raised = "none"

TerminalEvents ==
    {i \in 1..Len(s_events) : s_events[i].type \in {"done", "error"}}

\* C11: every stream that runs to its end (the generator returns, nothing
\* cancels it) has exactly one terminal event, done or error, and that event
\* is its last; also when the endpoint closes the connection without a line
\* whose done is true, and when the feed holds only empty or malformed lines.
C11_OneTerminalEvent ==
    (s_pc = "closed" /\ s_raised = "none") =>
        /\ Cardinality(TerminalEvents) = 1
        /\ TerminalEvents = {Len(s_events)}

(***************************************************************************)
(* The embedding client, get_embeddings (src/app/main.py 67-91).           *)
(*                                                                         *)
(* A vector is written [fill, dim]: dim components, all equal to fill.     *)
(* The embedding endpoint answers a request in one of these ways:          *)
(*   ok                a non-empty vector of the model                     *)
(*   empty             a 2xx answer whose "embedding" is missing or []     *)
(*   ConnectError      the connection cannot be made                       *)
(*   HTTPStatusError   a non-2xx status (raise_for_status)                 *)
(*   TimeoutException  the 60 s timeout passes                             *)
(*   JSONDecodeError   any other exception, here a body that is no JSON    *)
(***************************************************************************)
Vector(fill, dim) == [fill |-> fill, dim |-> dim]
ModelVector == Vector(1, EMBED_DIM)
ZeroVector == Vector(0, EMBED_DIM)

EmbedOutcomes ==
    {"ok", "empty", "ConnectError", "HTTPStatusError", "TimeoutException",
     "JSONDecodeError"}
HardFaults == {"ConnectError", "HTTPStatusError"}
SoftFaults == {"empty", "TimeoutException", "JSONDecodeError"}

Returned(value) == [raised |-> FALSE, exc |-> "none", value |-> value]
Raised(exc) == [raised |-> TRUE, exc |-> exc, value |-> Vector(0, 0)]

\* Lines 71-80, the body of the try: the exception it raises ("none" when it
\* returns the embedding).  An empty embedding raises ValueError, line 79.
embed_try(outcome) ==
    IF outcome = "ok" THEN "none"
    ELSE IF outcome = "empty" THEN "ValueError"
    ELSE outcome

\* get_embeddings with every exception re-raised.
get_embeddings_all_raise(outcome) ==
    LET exc == embed_try(outcome)
    IN IF exc = "none" THEN Returned(ModelVector) ELSE Raised(exc)

\* Lines 81-91, the except clauses: ConnectError and HTTPStatusError are
\* re-raised; every other Exception, the ValueError of line 79 included,
\* gives the zero vector of line 91.
get_embeddings(outcome) ==
    LET exc == embed_try(outcome)
    IN IF exc = "none" THEN Returned(ModelVector)
       ELSE IF exc = "ConnectError" THEN Raised(exc)
       ELSE IF exc = "HTTPStatusError" THEN Raised(exc)
       ELSE Returned(ZeroVector)

(***************************************************************************)
(* The vector store (the chromadb collection of line 40) as the code uses  *)
(* it: add, count, query.  A record is keyed by its id; add writes the     *)
(* whole batch or, when it raises, nothing.                                *)
(***************************************************************************)
Docs == {1, 2}

\* f"{file_id}_{i}", line 153
ChunkId(file_id, i) == <<file_id, i>>

FileName(file_id) == IF file_id = 1 THEN "one.txt" ELSE "two.txt"

\* The batch of lines 163-168: one record per position of the four lists.
Batch(ids, embeddings, metadatas, documents) ==
    {[id |-> ids[j], embedding |-> embeddings[j], metadata |-> metadatas[j],
      document |-> documents[j]] : j \in 1..Len(ids)}

store_count(st) == Cardinality(st)

\* The squared distance of two vectors of constant components.
Distance(u, v) == u.dim * (u.fill - v.fill) * (u.fill - v.fill)

\* r comes before o in the answer to a query for vec: nearer first, ties by id.
Nearer(r, o, vec) ==
    \/ Distance(r.embedding, vec) < Distance(o.embedding, vec)
    \/ /\ Distance(r.embedding, vec) = Distance(o.embedding, vec)
       /\ \/ r.id[1] < o.id[1]
          \/ r.id[1] = o.id[1] /\ r.id[2] <= o.id[2]

\* collection.query(query_embeddings=[vec], n_results=k)['documents'][0]
RECURSIVE store_query(_, _, _)
store_query(st, vec, k) ==
    IF st = {} \/ k = 0 THEN <<>>
    ELSE LET r == CHOOSE x \in st : \A o \in st : Nearer(x, o, vec)
         IN <<r.document>> \o store_query(st \ {r}, vec, k - 1)

(***************************************************************************)
(* ingest_document (src/app/main.py 139-168), one coroutine per document.  *)
(* It is suspended only at `await get_embeddings(chunk)`.                  *)
(***************************************************************************)
DocText(n) == [j \in 1..n |-> IF j % 2 = 1 THEN "a" ELSE "b"]

IngestNew ==
    [pc |-> "new", text |-> <<>>, chunks |-> <<>>, i |-> 0,
     ids |-> <<>>, embeddings |-> <<>>, metadatas |-> <<>>, documents |-> <<>>,
     result |-> "none", exc |-> "none",
     \* bookkeeping of the run, not state of the program:
     adds |-> 0,            \* calls of collection.add
     fault |-> "none",      \* the last failure of an embedding request
     fell_back |-> FALSE]   \* a failure was answered by the zero vector

\* The coroutine has ended: its lists are gone (i is kept, to tell how far
\* the loop came).
IngestEnd(st, result, exc) ==
    [st EXCEPT !.pc = "done",
               !.ids = <<>>, !.embeddings = <<>>, !.metadatas = <<>>,
               !.documents = <<>>, !.result = result, !.exc = exc]

\* Lines 141-144: chunk the text; no chunks, no work.
ingest_begin(st, text) ==
    LET chunks == chunk_text(text, CHUNK_SIZE, CHUNK_OVERLAP)
        st1 == [st EXCEPT !.text = text, !.chunks = chunks]
    IN IF chunks = <<>>
       THEN IngestEnd(st1, "returned", "none")
       ELSE [st1 EXCEPT !.pc = "embed", !.i = 0]

\* The loop with collection.add moved into it: each record is written as
\* soon as its embedding is there.
ingest_iteration_add_each(file_id, st, st_store, outcome, add_outcome) ==
    LET r == get_embeddings(outcome)
        i == st.i
        st1 == [st EXCEPT
                  !.fault = IF outcome = "ok" THEN @ ELSE outcome,
                  !.fell_back = @ \/ (outcome # "ok" /\ ~r.raised)]
    IN IF r.raised
       THEN [st |-> IngestEnd(st1, "raised", r.exc), store |-> st_store]
       ELSE LET rec == [id |-> ChunkId(file_id, i), embedding |-> r.value,
                        metadata |-> [filename |-> FileName(file_id),
                                      chunk_index |-> i],
                        document |-> st.chunks[i + 1]]
                st2 == [st1 EXCEPT !.i = i + 1, !.adds = @ + 1]
            IN IF i + 1 < Len(st.chunks)
               THEN [st |-> st2, store |-> st_store \cup {rec}]
               ELSE [st |-> IngestEnd(st2, "returned", "none"),
                     store |-> st_store \cup {rec}]

\* Lines 152-168 from the point where get_embeddings answers for chunk i:
\* the rest of iteration i and, after the last iteration, collection.add
\* (no await lies between them).
ingest_iteration(file_id, st, st_store, outcome, add_outcome) ==
    LET r == get_embeddings(outcome)
        i == st.i
        st1 == [st EXCEPT
                  !.fault = IF outcome = "ok" THEN @ ELSE outcome,
                  !.fell_back = @ \/ (outcome # "ok" /\ ~r.raised)]
    IN IF r.raised
       \* the exception leaves ingest_document: nothing was added
       THEN [st |-> IngestEnd(st1, "raised", r.exc), store |-> st_store]
       ELSE LET st2 == [st1 EXCEPT
                          !.ids = Append(@, ChunkId(file_id, i)),
                          !.embeddings = Append(@, r.value),
                          !.metadatas =
                              Append(@, [filename |-> FileName(file_id),
                                         chunk_index |-> i]),
                          !.documents = Append(@, st.chunks[i + 1]),
                          !.i = i + 1]
            IN IF i + 1 < Len(st.chunks)
               THEN [st |-> st2, store |-> st_store]
               \* lines 162-168
               ELSE IF st2.embeddings = <<>>
               THEN [st |-> IngestEnd(st2, "returned", "none"),
                     store |-> st_store]
               ELSE LET st3 == [st2 EXCEPT !.adds = @ + 1]
                    IN IF add_outcome = "ok"
                       THEN [st |-> IngestEnd(st3, "returned", "none"),
                             store |-> st_store \cup
                                 Batch(st2.ids, st2.embeddings,
                                       st2.metadatas, st2.documents)]
                       ELSE [st |-> IngestEnd(st3, "raised", "StoreError"),
                             store |-> st_store]

(***************************************************************************)
(* retrieve_relevant_chunks (src/app/main.py 222-244).  It is suspended    *)
(* only at `await get_embeddings(query)`.                                  *)
(***************************************************************************)
RetIdle ==
    [pc |-> "idle", caller |-> "none", query |-> <<>>,
     query_embedding |-> Vector(0, 0), result |-> <<>>, raised |-> FALSE,
     \* bookkeeping of the call, not state of the program:
     count |-> -1,              \* what collection.count() returned
     embed_calls |-> 0,         \* calls of get_embeddings
     query_calls |-> 0,         \* calls of collection.query
     store_result |-> <<>>,     \* what collection.query returned
     fault_count |-> "none", fault_embed |-> "none", fault_query |-> "none"]

\* An except clause that lets the exception go on to the caller.
retrieve_except_reraise(rt, exc) ==
    [rt EXCEPT !.pc = "returned", !.result = <<>>, !.raised = TRUE]

\* Lines 242-244: `except Exception`: print and return [].
retrieve_except(rt, exc) ==
    [rt EXCEPT !.pc = "returned", !.result = <<>>, !.raised = FALSE]

\* The count check left out.
retrieve_short_circuit_never(count) == FALSE

\* Line 227: `if count == 0`.
retrieve_short_circuit(count) == count = 0

\* Lines 224-231, up to the await.
retrieve_begin(st_store, caller, query, count_outcome) ==
    LET rt == [RetIdle EXCEPT !.caller = caller, !.query = query]
    IN IF count_outcome # "ok"
       THEN retrieve_except([rt EXCEPT !.fault_count = count_outcome],
                            count_outcome)
       ELSE LET count == store_count(st_store)
                rt1 == [rt EXCEPT !.count = count]
            IN IF retrieve_short_circuit(count)
               THEN [rt1 EXCEPT !.pc = "returned", !.result = <<>>]
               ELSE [rt1 EXCEPT !.pc = "embedding", !.embed_calls = @ + 1]

\* Lines 231-244, from the point where get_embeddings answers.
retrieve_resume(rt, st_store, outcome, query_outcome) ==
    LET r == get_embeddings(outcome)
        rt1 == [rt EXCEPT !.fault_embed = IF outcome = "ok" THEN @ ELSE outcome]
    IN IF r.raised
       THEN retrieve_except(rt1, r.exc)
       ELSE LET rt2 == [rt1 EXCEPT !.query_embedding = r.value,
                                   !.query_calls = @ + 1]
            IN IF query_outcome # "ok"
               THEN retrieve_except([rt2 EXCEPT !.fault_query = query_outcome],
                                    query_outcome)
               ELSE LET documents == store_query(st_store, r.value, TOP_K)
                    IN [rt2 EXCEPT
                          !.pc = "returned",
                          !.store_result = documents,
                          \* lines 239-241
                          !.result = IF Len(documents) > 0
                                     THEN documents ELSE <<>>]

(***************************************************************************)
(* chat (src/app/main.py 346-376), up to the point where the prompt is     *)
(* handed to stream_ollama_response.                                       *)
(***************************************************************************)
ChatIdle ==
    [pc |-> "idle", message |-> <<>>, action |-> "None",
     has_documents |-> FALSE, context_chunks |-> <<>>, use_rag |-> FALSE,
     prompt |-> <<>>,
     fault_count |-> "none"]    \* bookkeeping: the failure of count()

\* Lines 350-358.
chat_begin(st_store, message, action, count_outcome) ==
    [ChatIdle EXCEPT
       !.message = message,
       !.action = action,
       \* a bare `except:` turns a failing count() into "no documents"
       !.has_documents = count_outcome = "ok" /\ store_count(st_store) > 0,
       !.fault_count = IF count_outcome = "ok" THEN "none" ELSE count_outcome]

\* Lines 361-376, from the point where retrieve_relevant_chunks has answered:
\* an exception of it is not caught here.
chat_retrieved(ch, rt) ==
    IF rt.raised
    THEN [ch EXCEPT !.pc = "raised"]
    ELSE LET use_rag == Len(rt.result) > 0
         IN [ch EXCEPT
               !.pc = "streaming",
               !.context_chunks = rt.result,
               !.use_rag = use_rag,
               !.prompt = build_prompt(ch.message, rt.result, ch.action, use_rag)]

\* Lines 357-376 when has_documents is false: no retrieval.
chat_direct(ch) ==
    [ch EXCEPT
       !.pc = "streaming",
       !.prompt = build_prompt(ch.message, <<>>, ch.action, FALSE)]

(***************************************************************************)
(* Spec: two documents are ingested and one chat turn or one call of       *)
(* retrieve runs, all interleaved at their awaits.                         *)
(***************************************************************************)
Messages == {<<"q1">>}
ChatActions == {"None", "summarize"}
StoreOutcomes == {"ok", "StoreError"}

Init ==
    /\ ChunkIdle
    /\ PromptIdle
    /\ StreamIdle
    /\ store = {}
    /\ ing = [d \in Docs |-> IngestNew]
    /\ ret = RetIdle
    /\ chat = ChatIdle

\* upload_file calls ingest_document(file_id, text, filename).
IngestBegin(d) ==
    /\ ing[d].pc = "new"
    /\ \E n \in 0..MaxDocLen :
         ing' = [ing EXCEPT ![d] = ingest_begin(@, DocText(n))]
    /\ UNCHANGED <<store, ret, chat>>
    /\ UNCHANGED <<chunkVars, promptVars, streamVars>>

\* The embedding endpoint answers the request for the current chunk.
IngestResume(d) ==
    /\ ing[d].pc = "embed"
    /\ \E outcome \in EmbedOutcomes, add_outcome \in StoreOutcomes :
         LET n == ingest_iteration(d, ing[d], store, outcome, add_outcome)
         IN /\ ing' = [ing EXCEPT ![d] = n.st]
            /\ store' = n.store
    /\ UNCHANGED <<ret, chat>>
    /\ UNCHANGED <<chunkVars, promptVars, streamVars>>

\* POST /chat.
ChatBegin ==
    /\ chat.pc = "idle"
    /\ ret.pc = "idle"
    /\ \E message \in Messages, action \in ChatActions,
          chat_count \in StoreOutcomes, ret_count \in StoreOutcomes :
         LET ch == chat_begin(store, message, action, chat_count)
             rt == retrieve_begin(store, "chat", message, ret_count)
         IN IF ~ch.has_documents
            THEN /\ chat' = chat_direct(ch)
                 /\ ret' = ret
            ELSE /\ ret' = rt
                 /\ chat' = IF rt.pc = "returned"
                            THEN chat_retrieved(ch, rt)
                            ELSE [ch EXCEPT !.pc = "retrieving"]
    /\ UNCHANGED <<store, ing>>
    /\ UNCHANGED <<chunkVars, promptVars, streamVars>>

\* retrieve(query) called on its own.
RetrieveCall ==
    /\ chat.pc = "idle"
    /\ ret.pc = "idle"
    /\ \E query \in Messages, ret_count \in StoreOutcomes :
         ret' = retrieve_begin(store, "direct", query, ret_count)
    /\ UNCHANGED <<store, ing, chat>>
    /\ UNCHANGED <<chunkVars, promptVars, streamVars>>

\* The embedding endpoint answers the request for the query.
RetrieveResume ==
    /\ ret.pc = "embedding"
    /\ \E outcome \in EmbedOutcomes, query_outcome \in StoreOutcomes :
         LET rt == retrieve_resume(ret, store, outcome, query_outcome)
         IN /\ ret' = rt
            /\ chat' = IF rt.caller = "chat"
                       THEN chat_retrieved(chat, rt) ELSE chat
    /\ UNCHANGED <<store, ing>>
    /\ UNCHANGED <<chunkVars, promptVars, streamVars>>

Next ==
    \/ \E d \in Docs : IngestBegin(d)
    \/ \E d \in Docs : IngestResume(d)
    \/ ChatBegin
    \/ RetrieveCall
    \/ RetrieveResume

Spec == Init /\ [][Next]_vars

(***************************************************************************)
(* Properties of ingestion, retrieval and the chat turn.                   *)
(***************************************************************************)
DocRecords(d) == {r \in store : r.id[1] = d}

\* The records a complete ingestion of document d writes, whatever their
\* vectors: one per chunk, with the chunk's id, metadata and text.
IsWholeDocument(d, recs) ==
    LET n == Len(ing[d].chunks)
    IN /\ Cardinality(recs) = n
       /\ {r.id : r \in recs} = {ChunkId(d, i) : i \in 0..(n - 1)}
       /\ \A r \in recs :
            /\ r.document = ing[d].chunks[r.id[2] + 1]
            /\ r.metadata = [filename |-> FileName(d), chunk_index |-> r.id[2]]

EmbedExceptions == {"ConnectError", "HTTPStatusError", "ValueError",
                    "TimeoutException", "JSONDecodeError"}

\* C1: ingestion is all-or-nothing per document.  If an embedding call makes
\* ingest fail, add was never called and the store holds no record of the
\* document; if ingest succeeds, all n records went in by a single add; at
\* no point does the store hold only some of a document's records.
C1_AllOrNothing ==
    \A d \in Docs :
        LET st == ing[d]
            recs == DocRecords(d)
        IN /\ st.adds <= 1
           /\ recs = {} \/ IsWholeDocument(d, recs)
           /\ recs # {} => st.result = "returned" /\ st.adds = 1
           /\ (st.result = "raised" /\ st.exc \in EmbedExceptions) =>
                 st.adds = 0 /\ recs = {}
           /\ (st.result = "returned" /\ Len(st.chunks) > 0) =>
                 st.adds = 1 /\ IsWholeDocument(d, recs)

\* An ingestion of three chunks failed on its third chunk while the other
\* document is stored whole.
C1_Witness ==
    \E d, e \in Docs :
        /\ ing[d].result = "raised"
        /\ ing[d].exc = "ConnectError"
        /\ Len(ing[d].chunks) = 3
        /\ ing[d].i = 2
        /\ DocRecords(d) = {}
        /\ Cardinality(DocRecords(e)) = 3

\* C2: on the ingestion path every embedding failure is loud.  Whenever the
\* embedding request for a chunk fails (connection, status, empty vector,
\* timeout, any other exception), ingest has failed with the error raised to
\* its caller and nothing written; no fallback vector is ever stored.
C2_LoudFailure ==
    /\ \A d \in Docs :
         ing[d].fault # "none" =>
            /\ ing[d].pc = "done"
            /\ ing[d].result = "raised"
            /\ ing[d].exc \in EmbedExceptions
            /\ ing[d].adds = 0
            /\ DocRecords(d) = {}
    /\ \A r \in store : r.embedding # ZeroVector

\* The retrieve in progress or ended ran against a non-empty store and its
\* embedding request failed.
RetEmbedFault == ret.count > 0 /\ ret.fault_embed # "none"

C4_ShortCircuit ==
    ret.count = 0 =>
        /\ ret.pc = "returned"
        /\ ret.result = <<>>
        /\ ~ret.raised
        /\ ret.embed_calls = 0
        /\ ret.query_calls = 0

\* retrieve found the store empty while an ingestion was under way.
C4_Witness ==
    /\ ret.count = 0
    /\ ret.pc = "returned"
    /\ \E d \in Docs : ing[d].pc = "embed" /\ ing[d].i >= 1

\* count(), the query embedding or query raised inside retrieve.
RetFailed ==
    \/ ret.fault_count # "none"
    \/ ret.fault_embed \in HardFaults
    \/ ret.fault_query # "none"

StartsDirect(prompt) ==
    /\ Len(prompt) >= Len(DIRECT_SYSTEM)
    /\ SubSeq(prompt, 1, Len(DIRECT_SYSTEM)) = DIRECT_SYSTEM

\* C5: retrieval never aborts a chat turn.  If count(), the query embedding
\* or query raises, retrieve returns the empty sequence instead of raising,
\* and the chat turn composes its prompt in direct mode and goes on to
\* streaming; so does a turn whose own count() raises.
C5_RetrievalAbsorbed ==
    /\ RetFailed =>
         /\ ret.pc = "returned"
         /\ ret.result = <<>>
         /\ ~ret.raised
         /\ ret.caller = "chat" =>
               /\ chat.pc = "streaming"
               /\ ~chat.use_rag
               /\ chat.context_chunks = <<>>
               /\ StartsDirect(chat.prompt)
    /\ chat.fault_count # "none" =>
         chat.pc = "streaming" /\ StartsDirect(chat.prompt)
    /\ chat.pc # "raised"

\* A chat turn over a non-empty store whose query raised: it streams the
\* direct prompt.
C5_Witness ==
    /\ ret.caller = "chat"
    /\ ret.fault_query = "StoreError"
    /\ ret.count >= 2
    /\ chat.pc = "streaming"
    /\ StartsDirect(chat.prompt)

====
